---------------------------- MODULE Spec2Model ----------------------------
(***************************************************************************)
(* ChatView.post of backend/chat/views.py: a single-endpoint relay that    *)
(* validates the `text` field, reads OPENAI_API_KEY / BASE_URL from the    *)
(* process environment, issues one chat-completion call and maps the       *)
(* outcome to a JSON body and an HTTP status.                              *)
(*                                                                         *)
(* Several requests are handled concurrently.  Each request r runs the     *)
(* handler line by line (pc[r]); the locals of its call live in its own    *)
(* frame; the environment is shared and never written.                     *)
(***************************************************************************)
EXTENDS Integers, Sequences, FiniteSets, TLC

\* ------------------------------------------------------------------ bounds
NumRequests == 2
MaxChoices == 2

Requests == 1..NumRequests

\* ------------------------------------------------------- python/JSON values
\* A value is tagged with its type; v holds its text.
Str(s) == [t |-> "str", v |-> s]
Num(s) == [t |-> "num", v |-> s]
None == [t |-> "null", v |-> ""]
Unbound == [t |-> "unbound", v |-> ""]

\* Python truthiness, as used by `not user_text` and `not api_key`.
Truthy(x) ==
    CASE x.t = "str" -> x.v # ""
      [] x.t = "num" -> x.v # "0"
      [] OTHER -> FALSE

\* dict.get(key, default)
DictGet(d, key, default) == IF key \in DOMAIN d THEN d[key] ELSE default

\* os.getenv(name): None when the variable is not set.
Getenv(e, name) == IF name \in DOMAIN e THEN Str(e[name]) ELSE None

\* ------------------------------------------------------------ status codes
HTTP_200_OK == 200
HTTP_400_BAD_REQUEST == 400
HTTP_429_TOO_MANY_REQUESTS == 429
HTTP_500_INTERNAL_SERVER_ERROR == 500
HTTP_502_BAD_GATEWAY == 502
HTTP_503_SERVICE_UNAVAILABLE == 503

MODEL_ID == "deepseek/deepseek-r1-0528:free"

\* Mutant: the status argument is forgotten, so the default applies.
ResponseDefaultStatus(key, value, status) == [body |-> (key :> value), status |-> HTTP_200_OK]

\* Response(data, status=...)
Response(key, value, status) == [body |-> (key :> value), status |-> status]

\* ---------------------------------------------------------------- inputs
\* request.data: a JSON object (a dict) or a JSON array (a list, which has
\* no .get).
TextValues == {Str(""), None, Str("hi"), Num("7")}
RequestData ==
    {[kind |-> "object", members |-> <<>>]}
    \cup {[kind |-> "object", members |-> ("text" :> x)] : x \in TextValues}
    \cup {[kind |-> "array", members |-> <<>>]}
NoRequest == [kind |-> "none", members |-> <<>>]

ApiKeys == {"", "sk-test"}
BaseUrls == {"https://openrouter.ai/api/v1", "http://localhost:port"}
\* Values of BASE_URL that the client constructor rejects.
MalformedUrls == {"http://localhost:port"}
Environments ==
    {<<>>}
    \cup {("OPENAI_API_KEY" :> k) : k \in ApiKeys}
    \cup {("BASE_URL" :> b) : b \in BaseUrls}
    \cup {("OPENAI_API_KEY" :> k) @@ ("BASE_URL" :> b) : k \in ApiKeys, b \in BaseUrls}

\* Outcomes of client.chat.completions.create.
Contents == {"Hello!", "Bye"}
\* The exceptions create raises, each with the text str(e) gives.
RaisedByCreate ==
    {[class |-> "APIConnectionError", msg |-> "Connection error."],
     [class |-> "APITimeoutError", msg |-> "Request timed out."],
     [class |-> "RateLimitError", msg |-> "Rate limit reached"],
     [class |-> "BadRequestError", msg |-> "bad request body"],
     [class |-> "APIResponseValidationError", msg |-> "Data returned by API invalid"],
     [class |-> "TypeError", msg |-> "Object is not JSON serializable"]}
SeqsUpTo(S, n) == UNION {[1..k -> S] : k \in 0..n}
Outcomes ==
    {[kind |-> "return", choices |-> c, class |-> "", msg |-> ""] :
        c \in SeqsUpTo(Contents, MaxChoices)}
    \cup {[kind |-> "raise", choices |-> <<>>, class |-> x.class, msg |-> x.msg] :
        x \in RaisedByCreate}
NoOutcome == [kind |-> "none", choices |-> <<>>, class |-> "", msg |-> ""]

VARIABLES env, pc, request, user_text, api_key, base_url, client, sent,
          outcome, response, raised, reads, printed

vars == <<env, pc, request, user_text, api_key, base_url, client, sent,
          outcome, response, raised, reads, printed>>

\* ------------------------------------------------------ exception classes
\* The base class of each exception class the handler can meet (the classes
\* of the openai package named by the except clauses, and the builtins).
BaseOf ==
    [APITimeoutError |-> "APIConnectionError",
     APIConnectionError |-> "APIError",
     RateLimitError |-> "APIStatusError",
     BadRequestError |-> "APIStatusError",
     APIStatusError |-> "APIError",
     APIResponseValidationError |-> "APIError",
     APIError |-> "OpenAIError",
     OpenAIError |-> "Exception",
     IndexError |-> "Exception",
     TypeError |-> "Exception",
     AttributeError |-> "Exception",
     InvalidURL |-> "Exception",
     Exception |-> "BaseException"]

RECURSIVE IsInstance(_, _)
IsInstance(class, of) ==
    \/ class = of
    \/ class \in DOMAIN BaseOf /\ IsInstance(BaseOf[class], of)

\* Mutant: the class of the exception is formatted, not its message.
ApiErrorMessageOfClass(e) == "OpenAI API returned an error: " \o e.class

\* f"OpenAI API returned an error: {e}"
ApiErrorMessage(e) == "OpenAI API returned an error: " \o e.msg

\* The except clauses of the try statement: the class caught, the line
\* printed and the response returned.
ConnectionClause(e) ==
    [catch |-> "APIConnectionError",
     print |-> "OpenAI Connection Error: " \o e.msg,
     resp |-> Response("error",
                 Str("Failed to connect to OpenAI API. Please check your network connection."),
                 HTTP_503_SERVICE_UNAVAILABLE)]
RateLimitClause(e) ==
    [catch |-> "RateLimitError",
     print |-> "OpenAI Rate Limit Error: " \o e.msg,
     resp |-> Response("error",
                 Str("OpenAI API rate limit exceeded. Please try again later."),
                 HTTP_429_TOO_MANY_REQUESTS)]
ApiErrorClause(e) ==
    [catch |-> "APIError",
     print |-> "OpenAI API Error: " \o e.msg,
     resp |-> Response("error", Str(ApiErrorMessage(e)), HTTP_502_BAD_GATEWAY)]
CatchAllClause(e) ==
    [catch |-> "Exception",
     print |-> "Unexpected Error: " \o e.msg,
     resp |-> Response("error",
                 Str("An unexpected error occurred on the server."),
                 HTTP_500_INTERNAL_SERVER_ERROR)]

\* Mutants: the generic APIError clause placed before a more specific one.
ExceptClausesApiErrorFirst(e) ==
    << ApiErrorClause(e), ConnectionClause(e), RateLimitClause(e), CatchAllClause(e) >>
ExceptClausesRateLimitLate(e) ==
    << ConnectionClause(e), ApiErrorClause(e), RateLimitClause(e), CatchAllClause(e) >>

\* The clauses in source order.
ExceptClauses(e) ==
    << ConnectionClause(e), RateLimitClause(e), ApiErrorClause(e), CatchAllClause(e) >>

\* try/except dispatch: the first clause whose class the exception is an
\* instance of; 0 when none matches and the exception propagates.
Handler(e) ==
    LET cs == ExceptClauses(e)
        hit == {i \in 1..Len(cs) : IsInstance(e.class, cs[i].catch)}
    IN  IF hit = {} THEN 0 ELSE CHOOSE i \in hit : \A j \in hit : i <= j

\* The exception the try body ends with, if any: the one create raised, or
\* the IndexError of choices[0] on an empty list.
NoException == [class |-> "", msg |-> ""]
TryBodyException(o) ==
    IF o.kind = "raise" THEN [class |-> o.class, msg |-> o.msg]
    ELSE IF Len(o.choices) = 0
         THEN [class |-> "IndexError", msg |-> "list index out of range"]
         ELSE NoException

\* Mutant: the last choice is taken.
LastChoice(choices) == choices[Len(choices)]

\* chat_completion.choices[0].message.content
FirstChoice(choices) == choices[1]

\* The messages argument of the create call.
Messages(text) == << [role |-> "user", content |-> text] >>

\* Mutants: only None counts as missing.
TextIsNone(text) == text = None
KeyIsNone(key) == key = None

\* `not user_text` / `not api_key`
TextMissing(text) == ~Truthy(text)
KeyMissing(key) == ~Truthy(key)

\* openai.OpenAI(api_key=..., base_url=...) raises on a base URL it cannot
\* parse.
ClientRejects(url) == url.t = "str" /\ url.v \in MalformedUrls

\* Mutant: the locals are kept in one place shared by all calls.
SharedFrame(r) == 1

\* The frame holding the locals of request r's call of post.
Frame(r) == r

NoClient == [api_key |-> Unbound, base_url |-> Unbound]

TypeOK ==
    /\ env \in Environments
    /\ pc \in [Requests -> {"idle", "L10", "L14", "L20", "L23", "awaiting",
                            "done", "raised"}]
    /\ request \in [Requests -> RequestData \cup {NoRequest}]
    /\ DOMAIN user_text = Requests
    /\ DOMAIN api_key = Requests
    /\ DOMAIN base_url = Requests
    /\ DOMAIN client = Requests
    /\ DOMAIN sent = Requests
    /\ outcome \in [Requests -> Outcomes \cup {NoOutcome}]
    /\ DOMAIN response = Requests
    /\ DOMAIN raised = Requests
    /\ reads \in [Requests -> SUBSET {"OPENAI_API_KEY", "BASE_URL"}]
    /\ \A r \in Requests : Len(printed[r]) <= 1

Init ==
    /\ env \in Environments
    /\ pc = [r \in Requests |-> "idle"]
    /\ request = [r \in Requests |-> NoRequest]
    /\ user_text = [r \in Requests |-> Unbound]
    /\ api_key = [r \in Requests |-> Unbound]
    /\ base_url = [r \in Requests |-> Unbound]
    /\ client = [r \in Requests |-> NoClient]
    /\ sent = [r \in Requests |-> <<>>]
    /\ outcome = [r \in Requests |-> NoOutcome]
    /\ response = [r \in Requests |-> {}]
    /\ raised = [r \in Requests |-> {}]
    /\ reads = [r \in Requests |-> {}]
    /\ printed = [r \in Requests |-> <<>>]

\* The framework dispatches a POST request to post(self, request).
Post(r, data) ==
    /\ pc[r] = "idle"
    /\ request' = [request EXCEPT ![r] = data]
    /\ pc' = [pc EXCEPT ![r] = "L10"]
    /\ UNCHANGED <<env, user_text, api_key, base_url, client, sent, outcome,
                   response, raised, reads, printed>>

\* Lines 10-12: user_text = request.data.get('text', ''); 400 when falsy.  A
\* list has no .get: the AttributeError is raised outside any try.
GetText(r) ==
    /\ pc[r] = "L10"
    /\ IF request[r].kind # "object"
       THEN /\ raised' = [raised EXCEPT ![r] =
                    {[class |-> "AttributeError",
                      msg |-> "'list' object has no attribute 'get'"]}]
            /\ pc' = [pc EXCEPT ![r] = "raised"]
            /\ UNCHANGED <<user_text, response>>
       ELSE LET text == DictGet(request[r].members, "text", Str(""))
            IN  /\ user_text' = [user_text EXCEPT ![Frame(r)] = text]
                /\ IF TextMissing(text)
                   THEN /\ response' = [response EXCEPT ![r] =
                                {Response("error", Str("No text provided"),
                                          HTTP_400_BAD_REQUEST)}]
                        /\ pc' = [pc EXCEPT ![r] = "done"]
                   ELSE /\ pc' = [pc EXCEPT ![r] = "L14"]
                        /\ UNCHANGED response
                /\ UNCHANGED raised
    /\ UNCHANGED <<env, request, api_key, base_url, client, sent, outcome,
                   reads, printed>>

\* Lines 14-18: read the configuration; 500 when the key is missing.
ReadConfig(r) ==
    /\ pc[r] = "L14"
    /\ LET key == Getenv(env, "OPENAI_API_KEY")
       IN  /\ api_key' = [api_key EXCEPT ![Frame(r)] = key]
           /\ base_url' = [base_url EXCEPT ![Frame(r)] = Getenv(env, "BASE_URL")]
           /\ reads' = [reads EXCEPT ![r] = @ \cup {"OPENAI_API_KEY", "BASE_URL"}]
           /\ IF KeyMissing(key)
              THEN /\ response' = [response EXCEPT ![r] =
                           {Response("error",
                                Str("Server configuration error: OpenAI API key missing"),
                                HTTP_500_INTERNAL_SERVER_ERROR)}]
                   /\ pc' = [pc EXCEPT ![r] = "done"]
              ELSE /\ pc' = [pc EXCEPT ![r] = "L20"]
                   /\ UNCHANGED response
    /\ UNCHANGED <<env, request, user_text, client, sent, outcome, raised, printed>>

\* Line 20: client = openai.OpenAI(...), outside the try statement.
ConstructClient(r) ==
    /\ pc[r] = "L20"
    /\ IF ClientRejects(base_url[Frame(r)])
       THEN /\ raised' = [raised EXCEPT ![r] =
                    {[class |-> "InvalidURL", msg |-> "Invalid URL component 'port'"]}]
            /\ pc' = [pc EXCEPT ![r] = "raised"]
            /\ UNCHANGED client
       ELSE /\ client' = [client EXCEPT ![Frame(r)] =
                    [api_key |-> api_key[Frame(r)], base_url |-> base_url[Frame(r)]]]
            /\ pc' = [pc EXCEPT ![r] = "L23"]
            /\ UNCHANGED raised
    /\ UNCHANGED <<env, request, user_text, api_key, base_url, sent, outcome,
                   response, reads, printed>>

\* Lines 23-31: the call of client.chat.completions.create is issued and the
\* handler suspends until the provider answers.
CreateCall(r) ==
    /\ pc[r] = "L23"
    /\ sent' = [sent EXCEPT ![r] = Append(@,
                    [client |-> client[Frame(r)],
                     messages |-> Messages(user_text[Frame(r)]),
                     model |-> MODEL_ID])]
    /\ pc' = [pc EXCEPT ![r] = "awaiting"]
    /\ UNCHANGED <<env, request, user_text, api_key, base_url, client, outcome,
                   response, raised, reads, printed>>

\* Lines 23-46: the call returns a completion or raises and the handler
\* resumes: the first choice's content with status 200, or the except clause
\* that catches the exception of the try body.
ProviderAnswers(r, o) ==
    /\ pc[r] = "awaiting"
    /\ outcome' = [outcome EXCEPT ![r] = o]
    /\ LET e == TryBodyException(o)
           h == Handler(e)
       IN  IF e = NoException
           THEN /\ response' = [response EXCEPT ![r] =
                        {Response("response", Str(FirstChoice(o.choices)),
                                  HTTP_200_OK)}]
                /\ pc' = [pc EXCEPT ![r] = "done"]
                /\ UNCHANGED <<raised, printed>>
           ELSE IF h = 0
           THEN /\ raised' = [raised EXCEPT ![r] = {e}]
                /\ pc' = [pc EXCEPT ![r] = "raised"]
                /\ UNCHANGED <<response, printed>>
           ELSE /\ printed' = [printed EXCEPT ![r] =
                        Append(@, ExceptClauses(e)[h].print)]
                /\ response' = [response EXCEPT ![r] = {ExceptClauses(e)[h].resp}]
                /\ pc' = [pc EXCEPT ![r] = "done"]
                /\ UNCHANGED raised
    /\ UNCHANGED <<env, request, user_text, api_key, base_url, client, sent,
                   reads>>

Next ==
    \/ \E r \in Requests, data \in RequestData : Post(r, data)
    \/ \E r \in Requests : GetText(r)
    \/ \E r \in Requests : ReadConfig(r)
    \/ \E r \in Requests : ConstructClient(r)
    \/ \E r \in Requests : CreateCall(r)
    \/ \E r \in Requests, o \in Outcomes : ProviderAnswers(r, o)

Spec == Init /\ [][Next]_vars

\* ------------------------------------------------------------- properties
Finished(r) == pc[r] \in {"done", "raised"}

\* s has m as a substring.
Contains(s, m) ==
    \E i \in 1..(Len(s) - Len(m) + 1) : SubSeq(s, i, i + Len(m) - 1) = m

\* The request is a JSON object whose text is absent, null or "".
TextAbsentOrEmpty(data) ==
    /\ data.kind = "object"
    /\ \/ "text" \notin DOMAIN data.members
       \/ data.members["text"] \in {None, Str("")}

\* The request is a JSON object with a non-empty text.
HasText(data) ==
    /\ data.kind = "object"
    /\ "text" \in DOMAIN data.members
    /\ Truthy(data.members["text"])

KeyConfigured == Truthy(Getenv(env, "OPENAI_API_KEY"))

\* C1: a request whose text is missing or empty is answered with exactly
\* {"error": "No text provided"} and status 400, whatever the configuration,
\* before any configuration variable is read and with no provider call.
C1_NoTextIs400 ==
    \A r \in Requests :
        (TextAbsentOrEmpty(request[r]) /\ pc[r] \notin {"idle", "L10"}) =>
            /\ pc[r] = "done"
            /\ response[r] = {[body |-> [error |-> Str("No text provided")],
                               status |-> 400]}
            /\ reads[r] = {}
            /\ sent[r] = <<>>

C1_Witness ==
    \E r \in Requests :
        /\ TextAbsentOrEmpty(request[r])
        /\ pc[r] = "done"
        /\ KeyConfigured
        /\ "BASE_URL" \in DOMAIN env

\* C2: with OPENAI_API_KEY unset or empty, a request with a non-empty text is
\* answered with status 500 and the configuration-error message, and no
\* provider call is made.
C2_NoKeyIs500 ==
    \A r \in Requests :
        (HasText(request[r]) /\ ~KeyConfigured
            /\ pc[r] \notin {"idle", "L10", "L14"}) =>
            /\ pc[r] = "done"
            /\ response[r] =
                 {[body |-> [error |->
                      Str("Server configuration error: OpenAI API key missing")],
                   status |-> 500]}
            /\ sent[r] = <<>>

C2_Witness ==
    \E r \in Requests :
        /\ HasText(request[r])
        /\ "OPENAI_API_KEY" \in DOMAIN env
        /\ env["OPENAI_API_KEY"] = ""
        /\ pc[r] = "done"

\* C3: when the provider call returns a non-empty list of completions, the
\* response is {"response": c} with status 200 where c is the content of the
\* first choice, and the one call made carried the single message
\* {role: "user", content: text} for the request's own text.
C3_FirstChoiceIs200 ==
    \A r \in Requests :
        (Finished(r) /\ outcome[r].kind = "return"
            /\ Len(outcome[r].choices) >= 1) =>
            /\ pc[r] = "done"
            /\ response[r] =
                 {[body |-> [response |-> Str(outcome[r].choices[1])],
                   status |-> 200]}
            /\ Len(sent[r]) = 1
            /\ sent[r][1].messages =
                 << [role |-> "user", content |-> request[r].members["text"]] >>

C3_Witness ==
    \E r \in Requests :
        /\ pc[r] = "done"
        /\ outcome[r].kind = "return"
        /\ Len(outcome[r].choices) = 2
        /\ outcome[r].choices[1] # outcome[r].choices[2]

\* C4 (as claimed): no failure at any step of the handler propagates out of
\* it as an unhandled exception.
C4_AllFailuresCaught ==
    \A r \in Requests : pc[r] # "raised" /\ raised[r] = {}

\* C5: a connection failure of the provider call is answered with status 503
\* and the fixed connection message, which does not contain the provider's
\* error text.
C5_ConnectionIs503 ==
    \A r \in Requests :
        (Finished(r) /\ outcome[r].kind = "raise"
            /\ IsInstance(outcome[r].class, "APIConnectionError")) =>
            /\ pc[r] = "done"
            /\ response[r] =
                 {[body |-> [error |->
                      Str("Failed to connect to OpenAI API. Please check your network connection.")],
                   status |-> 503]}
            /\ \A x \in response[r] : ~Contains(x.body["error"].v, outcome[r].msg)

C5_Witness ==
    \E r \in Requests :
        /\ pc[r] = "done"
        /\ outcome[r].kind = "raise"
        /\ outcome[r].class = "APIConnectionError"
        /\ IsInstance(outcome[r].class, "APIError")

\* C6: a rate-limit rejection of the provider call is answered with status
\* 429 and the fixed rate-limit message, never with the 502 response, and
\* the message does not contain the provider's error text.
C6_RateLimitIs429 ==
    \A r \in Requests :
        (Finished(r) /\ outcome[r].kind = "raise"
            /\ IsInstance(outcome[r].class, "RateLimitError")) =>
            /\ pc[r] = "done"
            /\ response[r] =
                 {[body |-> [error |->
                      Str("OpenAI API rate limit exceeded. Please try again later.")],
                   status |-> 429]}
            /\ \A x \in response[r] :
                  x.status # 502 /\ ~Contains(x.body["error"].v, outcome[r].msg)

C6_Witness ==
    \E r \in Requests :
        /\ pc[r] = "done"
        /\ outcome[r].kind = "raise"
        /\ outcome[r].class = "RateLimitError"
        /\ IsInstance(outcome[r].class, "APIError")

\* C7: an API error of the provider call that is neither a connection
\* failure nor a rate-limit rejection and carries message m is answered with
\* status 502 and "OpenAI API returned an error: " followed by m.
C7_ApiErrorIs502 ==
    \A r \in Requests :
        (Finished(r) /\ outcome[r].kind = "raise"
            /\ IsInstance(outcome[r].class, "APIError")
            /\ ~IsInstance(outcome[r].class, "APIConnectionError")
            /\ ~IsInstance(outcome[r].class, "RateLimitError")) =>
            /\ pc[r] = "done"
            /\ response[r] =
                 {[body |-> [error |->
                      Str("OpenAI API returned an error: " \o outcome[r].msg)],
                   status |-> 502]}

C7_Witness ==
    \E r \in Requests :
        /\ pc[r] = "done"
        /\ outcome[r].kind = "raise"
        /\ outcome[r].class = "BadRequestError"
        /\ outcome[r].msg = "bad request body"

\* C8 (as claimed): while handling one request the handler makes at most one
\* provider call, exactly one when the text is non-empty and the API key is
\* set and none otherwise, and once the call has been answered the request
\* is finished without a further call.
C8_ExactlyOneCall ==
    \A r \in Requests :
        /\ Len(sent[r]) <= 1
        /\ Finished(r) =>
              Len(sent[r]) =
                  IF HasText(request[r]) /\ KeyConfigured THEN 1 ELSE 0

Determined(data, e, o) ==
    IF data.kind # "object" THEN {}
    ELSE IF ~Truthy(DictGet(data.members, "text", Str("")))
    THEN {[body |-> [error |-> Str("No text provided")], status |-> 400]}
    ELSE IF ~Truthy(Getenv(e, "OPENAI_API_KEY"))
    THEN {[body |-> [error |->
              Str("Server configuration error: OpenAI API key missing")],
           status |-> 500]}
    ELSE IF Getenv(e, "BASE_URL").v \in MalformedUrls THEN {}
    ELSE IF o.kind = "return" /\ Len(o.choices) >= 1
    THEN {[body |-> [response |-> Str(o.choices[1])], status |-> 200]}
    ELSE IF o.kind = "return"
    THEN {[body |-> [error |-> Str("An unexpected error occurred on the server.")],
           status |-> 500]}
    ELSE IF o.class \in {"APIConnectionError", "APITimeoutError"}
    THEN {[body |-> [error |->
              Str("Failed to connect to OpenAI API. Please check your network connection.")],
           status |-> 503]}
    ELSE IF o.class = "RateLimitError"
    THEN {[body |-> [error |->
              Str("OpenAI API rate limit exceeded. Please try again later.")],
           status |-> 429]}
    ELSE IF o.class \in {"BadRequestError", "APIResponseValidationError"}
    THEN {[body |-> [error |-> Str("OpenAI API returned an error: " \o o.msg)],
           status |-> 502]}
    ELSE {[body |-> [error |-> Str("An unexpected error occurred on the server.")],
           status |-> 500]}

\* The state of request q's handling.
StateOf(q) ==
    <<request[q], user_text[q], api_key[q], base_url[q], client[q], sent[q],
      outcome[q], response[q], raised[q], reads[q], printed[q], pc[q]>>

\* C10: under any interleaving, the response of a finished request is the one
\* determined by its own text, the configuration and the outcome of its own
\* provider call; a step of one request changes neither the configuration
\* nor anything belonging to another request.
C10_Independent ==
    /\ [](\A r \in Requests :
            Finished(r) => response[r] = Determined(request[r], env, outcome[r]))
    /\ [][/\ env' = env
          /\ \A r \in Requests : pc'[r] # pc[r] =>
                \A q \in Requests \ {r} : StateOf(q)' = StateOf(q)]_vars

C10_Witness ==
    \E r, q \in Requests :
        /\ r # q
        /\ pc[r] = "done" /\ pc[q] = "done"
        /\ outcome[r].kind = "raise"
        /\ outcome[q].kind = "return"
        /\ Len(outcome[q].choices) >= 1
        /\ request[r] # request[q]
=============================================================================
